---- MODULE Spec2Model ----
(***************************************************************************)
(* Model of the waSCC HTTP server capability provider (src/src/lib.rs).    *)
(*                                                                         *)
(* State: the two RwLock-protected fields of HttpServerProvider (the       *)
(* dispatcher and the servers map), the listener threads spawned by        *)
(* spawn_server, the host threads that are inside handle_call or           *)
(* configure_dispatch, and the HTTP requests that are inside               *)
(* request_handler.  Every statement that takes or releases a lock is a    *)
(* step of its own, so that the interleavings of the code are the          *)
(* behaviours of the model.                                                *)
(***************************************************************************)
EXTENDS Integers, Sequences, FiniteSets, TLC

\* ------------------------------------------------------------------ bounds

\* listener threads spawned in one behaviour
MaxSpawns == 2
\* HTTP requests inside request_handler at the same time
MaxReqs == 2

\* ------------------------------------------------------------- value sets

Modules == {"m1", "m2"}
\* the host threads that may be inside the provider at the same time
Threads == {"h1", "h2"}

\* wascc_codec::core::{OP_BIND_ACTOR, OP_REMOVE_ACTOR}
OP_BIND_ACTOR == "BindActor"
OP_REMOVE_ACTOR == "RemoveActor"
Ops == {OP_BIND_ACTOR, OP_REMOVE_ACTOR, "HandleRequest"}
Origins == {"system", "m1"}

None == "none"

\* CapabilityConfiguration.values: a map from keys to strings
NoValues == [k \in {} |-> ""]
ValueMaps == {NoValues, [PORT |-> "9100"], [PORT |-> "http"]}

Config(module, values) == [module |-> module, values |-> values]

\* the bytes of a call: an encoded CapabilityConfiguration, or bytes that
\* do not decode as one
Configs == [module : Modules, values : ValueMaps]
serialize(cfg) == [bytes |-> "config", module |-> cfg.module, values |-> cfg.values]
Garbage == [bytes |-> "garbage", module |-> None, values |-> NoValues]
Msgs == {Garbage} \cup {serialize(c) : c \in Configs}

\* deserialize::<CapabilityConfiguration>(msg)
deserialize_configuration(msg) ==
    IF msg.bytes = "config"
    THEN [ok |-> TRUE, val |-> [module |-> msg.module, values |-> msg.values]]
    ELSE [ok |-> FALSE, val |-> [module |-> None, values |-> NoValues]]

\* cfgvals.values.get(key)
Get(values, key) == IF key \in DOMAIN values THEN values[key] ELSE None

\* let bind_port = match cfgvals.values.get("PORT") ...
bind_port(values) ==
    IF Get(values, "PORT") # None THEN Get(values, "PORT") ELSE "8080"

\* a host that is taken from the configuration only when a port is given too
bind_host_with_port(values) ==
    IF Get(values, "HOST") # None /\ Get(values, "PORT") # None
    THEN Get(values, "HOST") ELSE "0.0.0.0"

\* let bind_host = match cfgvals.values.get("HOST") ...
bind_host(values) ==
    IF Get(values, "HOST") # None THEN Get(values, "HOST") ELSE "0.0.0.0"

\* format!("{}:{}", bind_host, bind_port), as the three pieces of the string
bind_addr(values) == <<bind_host(values), ":", bind_port(values)>>

\* what HttpServer::bind makes of the string: the port must be a number
PortNumber(s) ==
    CASE s = "8080" -> 8080
      [] s = "9100" -> 9100
      [] s = "9101" -> 9101
      [] OTHER -> -1

KnownHosts == {"0.0.0.0", "127.0.0.1"}

ParseAddr(addr) ==
    IF addr[1] \in KnownHosts /\ addr[2] = ":" /\ PortNumber(addr[3]) >= 0
    THEN [ok |-> TRUE, host |-> addr[1], port |-> PortNumber(addr[3])]
    ELSE [ok |-> FALSE, host |-> None, port |-> -1]

\* two socket addresses that cannot both be listened on
Conflict(a, b) ==
    /\ a.port = b.port
    /\ (a.host = b.host \/ a.host = "0.0.0.0" \/ b.host = "0.0.0.0")


\* ------------------------------------------------- dispatch and responses

\* the dispatchers the host may hand over, and NullDispatcher ("null")
Dispatchers == {"null", "d1", "d2"}

\* codec::http::Response as the module builds it
NoHeaders == [k \in {} |-> ""]
Responses ==
    { [status_code |-> 200, header |-> NoHeaders, body |-> "ok"],
      [status_code |-> 201, header |-> [ContentType |-> "text/plain"], body |-> ""],
      [status_code |-> 99, header |-> NoHeaders, body |-> "ok"] }

\* serialize(response) on the module's side, and bytes that are no Response
serialize_response(r) ==
    [bytes |-> "response", status_code |-> r.status_code, header |-> r.header,
     body |-> r.body]
BadPayload ==
    [bytes |-> "garbage", status_code |-> 0, header |-> NoHeaders, body |-> ""]
Payloads == {BadPayload} \cup {serialize_response(r) : r \in Responses}

\* deserialize::<codec::http::Response>(r.as_slice())
deserialize_response(p) ==
    IF p.bytes = "response"
    THEN [ok |-> TRUE,
          val |-> [status_code |-> p.status_code, header |-> p.header, body |-> p.body]]
    ELSE [ok |-> FALSE,
          val |-> [status_code |-> 0, header |-> NoHeaders, body |-> ""]]

\* Result<Vec<u8>, Box<dyn Error>> of Dispatcher::dispatch, or a panic inside it
DispatchOk(p) == [kind |-> "ok", payload |-> p]
DispatchErr == [kind |-> "err", payload |-> BadPayload]
DispatchPanic == [kind |-> "panic", payload |-> BadPayload]
NoOutcome == [kind |-> "none", payload |-> BadPayload]

\* the dispatcher fails for this target
DispatcherFails(d, target) == d = "d1" /\ target = "m1"

\* what lock.dispatch(target, op, &buf) may return: NullDispatcher serves
\* nothing, d1 fails for m1 and reaches m2, d2 reaches every module; a module
\* that is reached answers with any payload
DispatchOutcomes(d, target, op) ==
    IF d = "null" THEN {DispatchErr, DispatchPanic}
    ELSE IF DispatcherFails(d, target) \/ op # "HandleRequest" THEN {DispatchErr}
    ELSE {DispatchOk(p) : p \in Payloads}

\* r.status_code as _ : the cast to u16
AsU16(x) == x % 65536

\* StatusCode::from_u16
StatusFromU16(x) ==
    IF x >= 100 /\ x < 1000 THEN [ok |-> TRUE, val |-> x] ELSE [ok |-> FALSE, val |-> 0]

\* what the client gets: a response, or the connection dropped by a panic
\* of the handler
HttpResponse(status, body) == [sent |-> TRUE, status |-> status, headers |-> NoHeaders, body |-> body]
Dropped == [sent |-> FALSE, status |-> 0, headers |-> NoHeaders, body |-> ""]
NoResponse == [sent |-> FALSE, status |-> -1, headers |-> NoHeaders, body |-> ""]

\* the Err(e) arm of request_handler
ErrorResponse == HttpResponse(500, "Failed to handle request")

\* match resp { Ok(r) => .., Err(e) => .. } of request_handler
Respond(out) ==
    IF out.kind = "ok"
    THEN LET r == deserialize_response(out.payload)
             sc == StatusFromU16(AsU16(r.val.status_code))
         IN  IF ~r.ok \/ ~sc.ok THEN Dropped
             ELSE HttpResponse(sc.val, r.val.body)
    ELSE ErrorResponse

\* the value of a request header as the bytes on the wire: "te" and "t\xE9"
Requests == {[header |-> <<116, 101>>], [header |-> <<116, 233>>]}

\* HeaderValue::to_str: the value as a string if every byte is visible ASCII
VisibleAscii(b) == (b >= 32 /\ b < 127) \/ b = 9
to_str(hval) == [ok |-> \A i \in 1..Len(hval) : VisibleAscii(hval[i]), val |-> hval]

\* extract_headers(&req): hval.to_str().unwrap() for the header of the
\* request; not ok is the panic of the unwrap
extract_headers(req) == to_str(req.header)

\* the connections a listener's workers are handling
Slots == 1..MaxReqs
NoRequest == [pc |-> "idle", lst |-> 0, module |-> None, via |-> None,
              target |-> None, op |-> None, out |-> NoOutcome, http |-> NoResponse]

\* ------------------------------------------------------------------ state

VARIABLES
    dispatcher, \* the Box<dyn Dispatcher> inside HttpServerProvider.dispatcher
    dlock,      \* the RwLock around it: who reads, who writes
    servers,    \* HttpServerProvider.servers: module -> listener, 0 = no entry
    slock,      \* the RwLock around it: who reads, who writes, poisoned
    srv,        \* the listener threads spawned so far, in spawn order
    pc,         \* where each host thread is inside the provider
    arg,        \* the module (or dispatcher) of the call a host thread is in
    tgt,        \* history: the listener registered for arg when stop was called
    quiet,      \* history: no other start or stop for arg since stop was called
    reqs,       \* the HTTP requests inside request_handler
    last        \* history: the host call that returned last

vars == <<dispatcher, dlock, servers, slock, srv, pc, arg, tgt, quiet, reqs,
          last>>

\* Result<Vec<u8>, Box<dyn StdError>> of handle_call, or a panic that unwinds
\* out of it
Ok == [kind |-> "ok", msg |-> <<>>]
\* an error that names no operation
ErrUnknownNoOp(op) == [kind |-> "err", msg |-> <<"Unknown operation: ", "">>]
\* Err(format!("Unknown operation: {}", op).into())
ErrUnknown(op) == [kind |-> "err", msg |-> <<"Unknown operation: ", op>>]
ErrDecode == [kind |-> "err", msg |-> <<"deserialize">>]
Panicked == [kind |-> "panic", msg |-> <<>>]
NoResult == [kind |-> "none", msg |-> <<>>]

NoCall == [origin |-> None, op |-> None, module |-> None, res |-> NoResult,
           quiet |-> TRUE]

\* a listener thread of spawn_server: the module and address it was given,
\* where the thread is, its socket, and whether Server::stop was sent to it
NewServer(module, addr) ==
    [module |-> module, addr |-> addr, pc |-> "bind", sock |-> "none",
     stopReq |-> FALSE]

SrvIds == 1..Len(srv)

\* the listener is bound and accepts connections
Serving(n) == n \in SrvIds /\ srv[n].sock = "listening"

\* the address is held by a listener of this process
InUse(a) == \E k \in SrvIds :
    /\ srv[k].sock = "listening"
    /\ Conflict(ParseAddr(srv[k].addr), a)

\* a start for module m has been issued and has not yet registered or died
Starting(m) == \E k \in SrvIds : srv[k].module = m /\ srv[k].pc \in {"bind", "insert"}

\* host thread t is inside terminate_server
StopPcs == {"ts_read", "ts_check", "ts_write", "ts_remove"}
Stopping(t) == pc[t] \in StopPcs

\* history: a stop that has met another start or stop for its module is
\* no longer quiet
QuietUpd ==
    quiet' = [t \in Threads |->
        IF pc'[t] \in StopPcs
        THEN /\ (pc[t] \in StopPcs => quiet[t])
             /\ ~\E k \in 1..Len(srv') :
                   srv'[k].module = arg'[t] /\ srv'[k].pc \in {"bind", "insert"}
             /\ ~\E u \in Threads \ {t} : pc'[u] \in StopPcs /\ arg'[u] = arg'[t]
        ELSE TRUE]

Init ==
    /\ dispatcher = "null"
    /\ dlock = [readers |-> {}, writer |-> None]
    /\ servers = [m \in Modules |-> 0]
    /\ slock = [readers |-> {}, writer |-> None, poisoned |-> FALSE]
    /\ srv = <<>>
    /\ pc = [t \in Threads |-> "idle"]
    /\ arg = [t \in Threads |-> None]
    /\ tgt = [t \in Threads |-> 0]
    /\ quiet = [t \in Threads |-> TRUE]
    /\ reqs = [s \in Slots |-> NoRequest]
    /\ last = NoCall

\* ------------------------------------------------------------ handle_call

\* a guard that lets every origin through
origin_is_any(origin) == TRUE

\* origin == "system"
origin_is_system(origin) == origin = "system"

\* a host thread calls handle_call
Enter(t) == pc[t] = "idle"

\* a host thread returns from the provider
Return(t, origin, op, module, res) ==
    /\ pc' = [pc EXCEPT ![t] = "idle"]
    /\ arg' = [arg EXCEPT ![t] = None]
    /\ tgt' = [tgt EXCEPT ![t] = 0]
    /\ last' = [origin |-> origin, op |-> op, module |-> module, res |-> res,
                quiet |-> quiet[t]]

\* spawn_server: the address is computed, the thread is spawned, the call
\* returns
spawn_server(cfgvals) ==
    srv' = Append(srv, NewServer(cfgvals.module, bind_addr(cfgvals.values)))

\* handle_call with op == OP_BIND_ACTOR && origin == "system"
handle_call_bind(t, origin, op, msg) ==
    /\ Enter(t)
    /\ op = OP_BIND_ACTOR /\ origin_is_system(origin)
    /\ LET cfg == deserialize_configuration(msg) IN
       IF ~cfg.ok
       THEN /\ Return(t, origin, op, None, ErrDecode)
            /\ UNCHANGED srv
       ELSE /\ Len(srv) < MaxSpawns
            /\ spawn_server(cfg.val)
            /\ Return(t, origin, op, cfg.val.module, Ok)
    /\ UNCHANGED <<dispatcher, dlock, servers, slock, reqs>>
    /\ QuietUpd

\* handle_call with op == OP_REMOVE_ACTOR && origin == "system": the thread
\* enters terminate_server
handle_call_remove(t, origin, op, msg) ==
    /\ Enter(t)
    /\ ~(op = OP_BIND_ACTOR /\ origin_is_system(origin))
    /\ op = OP_REMOVE_ACTOR /\ origin_is_system(origin)
    /\ LET cfg == deserialize_configuration(msg) IN
       IF ~cfg.ok
       THEN Return(t, origin, op, None, ErrDecode)
       ELSE /\ pc' = [pc EXCEPT ![t] = "ts_read"]
            /\ arg' = [arg EXCEPT ![t] = cfg.val.module]
            /\ tgt' = [tgt EXCEPT ![t] = servers[cfg.val.module]]
            /\ UNCHANGED last
    /\ UNCHANGED <<dispatcher, dlock, servers, slock, srv, reqs>>
    /\ QuietUpd

\* handle_call, the else branch
handle_call_unknown(t, origin, op, msg) ==
    /\ Enter(t)
    /\ ~(op = OP_BIND_ACTOR /\ origin_is_system(origin))
    /\ ~(op = OP_REMOVE_ACTOR /\ origin_is_system(origin))
    /\ Return(t, origin, op, None, ErrUnknown(op))
    /\ UNCHANGED <<dispatcher, dlock, servers, slock, srv, reqs>>
    /\ QuietUpd

\* ------------------------------------------------------- terminate_server

\* let lock = self.servers.read().unwrap();
terminate_server_read(t) ==
    /\ pc[t] = "ts_read"
    /\ slock.writer = None
    /\ IF slock.poisoned
       THEN /\ Return(t, "system", OP_REMOVE_ACTOR, arg[t], Panicked)
            /\ UNCHANGED slock
       ELSE /\ slock' = [slock EXCEPT !.readers = @ \cup {t}]
            /\ pc' = [pc EXCEPT ![t] = "ts_check"]
            /\ UNCHANGED <<arg, tgt, last>>
    /\ UNCHANGED <<dispatcher, dlock, servers, srv, reqs>>
    /\ QuietUpd

\* if !lock.contains_key(module) { error!(..); return; }
\* let server = lock.get(module).unwrap(); let _ = server.stop(true);
\* and the read guard is dropped at the end of the block
terminate_server_check(t) ==
    /\ pc[t] = "ts_check"
    /\ slock' = [slock EXCEPT !.readers = @ \ {t}]
    /\ IF servers[arg[t]] = 0
       THEN /\ Return(t, "system", OP_REMOVE_ACTOR, arg[t], Ok)
            /\ UNCHANGED srv
       ELSE /\ srv' = [srv EXCEPT ![servers[arg[t]]].stopReq = TRUE]
            /\ pc' = [pc EXCEPT ![t] = "ts_write"]
            /\ UNCHANGED <<arg, tgt, last>>
    /\ UNCHANGED <<dispatcher, dlock, servers, reqs>>
    /\ QuietUpd

\* let mut lock = self.servers.write().unwrap();
terminate_server_write(t) ==
    /\ pc[t] = "ts_write"
    /\ slock.writer = None /\ slock.readers = {}
    /\ IF slock.poisoned
       THEN /\ Return(t, "system", OP_REMOVE_ACTOR, arg[t], Panicked)
            /\ UNCHANGED slock
       ELSE /\ slock' = [slock EXCEPT !.writer = t]
            /\ pc' = [pc EXCEPT ![t] = "ts_remove"]
            /\ UNCHANGED <<arg, tgt, last>>
    /\ UNCHANGED <<dispatcher, dlock, servers, srv, reqs>>
    /\ QuietUpd

\* a removal that releases the lock and returns without removing the entry
terminate_server_remove_keeps(t) ==
    /\ pc[t] = "ts_remove"
    /\ slock' = [slock EXCEPT !.writer = None]
    /\ Return(t, "system", OP_REMOVE_ACTOR, arg[t], Ok)
    /\ UNCHANGED <<dispatcher, dlock, servers, srv, reqs>>
    /\ QuietUpd

\* lock.remove(module).unwrap(); a panic here unwinds through the write
\* guard, which poisons the lock
terminate_server_remove(t) ==
    /\ pc[t] = "ts_remove"
    /\ IF servers[arg[t]] = 0
       THEN /\ slock' = [slock EXCEPT !.writer = None, !.poisoned = TRUE]
            /\ Return(t, "system", OP_REMOVE_ACTOR, arg[t], Panicked)
            /\ UNCHANGED servers
       ELSE /\ servers' = [servers EXCEPT ![arg[t]] = 0]
            /\ slock' = [slock EXCEPT !.writer = None]
            /\ Return(t, "system", OP_REMOVE_ACTOR, arg[t], Ok)
    /\ UNCHANGED <<dispatcher, dlock, srv, reqs>>
    /\ QuietUpd

\* ------------------------------------------- the thread of spawn_server

\* a thread that registers its handle whether or not the bind succeeded
server_thread_bind_registers(n) ==
    /\ srv[n].pc = "bind"
    /\ LET a == ParseAddr(srv[n].addr) IN
       IF a.ok /\ ~InUse(a)
       THEN srv' = [srv EXCEPT ![n].pc = "insert", ![n].sock = "listening"]
       ELSE srv' = [srv EXCEPT ![n].pc = "insert"]
    /\ UNCHANGED <<dispatcher, dlock, servers, slock, pc, arg, tgt, reqs, last>>
    /\ QuietUpd

\* HttpServer::new(..).bind(bind_addr).unwrap().disable_signals().run():
\* the listener is bound and accepting, or the thread panics
server_thread_bind(n) ==
    /\ srv[n].pc = "bind"
    /\ LET a == ParseAddr(srv[n].addr) IN
       IF a.ok /\ ~InUse(a)
       THEN srv' = [srv EXCEPT ![n].pc = "insert", ![n].sock = "listening"]
       ELSE srv' = [srv EXCEPT ![n].pc = "dead"]
    /\ UNCHANGED <<dispatcher, dlock, servers, slock, pc, arg, tgt, reqs, last>>
    /\ QuietUpd

\* an insert that replaces the whole registry by the one new entry
server_thread_insert_replaces(n) ==
    /\ srv[n].pc = "insert"
    /\ slock.writer = None /\ slock.readers = {}
    /\ IF slock.poisoned
       THEN /\ \E s \in {"listening", "closed"} :
                 srv' = [srv EXCEPT ![n].pc = "dead", ![n].sock = s]
            /\ UNCHANGED servers
       ELSE /\ servers' = [m \in Modules |-> IF m = srv[n].module THEN n ELSE 0]
            /\ srv' = [srv EXCEPT ![n].pc = "run"]
    /\ UNCHANGED <<dispatcher, dlock, slock, pc, arg, tgt, reqs, last>>
    /\ QuietUpd

\* servers.write().unwrap().insert(module_id.clone(), server); the thread
\* then enters sys.run().  On a poisoned lock the thread panics with its
\* listener started; what becomes of the socket is left open.
server_thread_insert(n) ==
    /\ srv[n].pc = "insert"
    /\ slock.writer = None /\ slock.readers = {}
    /\ IF slock.poisoned
       THEN /\ \E s \in {"listening", "closed"} :
                 srv' = [srv EXCEPT ![n].pc = "dead", ![n].sock = s]
            /\ UNCHANGED servers
       ELSE /\ servers' = [servers EXCEPT ![srv[n].module] = n]
            /\ srv' = [srv EXCEPT ![n].pc = "run"]
    /\ UNCHANGED <<dispatcher, dlock, slock, pc, arg, tgt, reqs, last>>
    /\ QuietUpd

\* the server acts on the stop command sent by Server::stop(true): it stops
\* accepting and closes its socket
server_stop(n) ==
    /\ srv[n].pc = "run"
    /\ srv[n].stopReq
    /\ srv[n].sock = "listening"
    /\ srv' = [srv EXCEPT ![n].sock = "closed"]
    /\ UNCHANGED <<dispatcher, dlock, servers, slock, pc, arg, tgt, reqs, last>>
    /\ QuietUpd

\* ----------------------------------------------------- configure_dispatch

\* the host calls configure_dispatch(dispatcher)
configure_dispatch_call(t, d) ==
    /\ pc[t] = "idle"
    /\ pc' = [pc EXCEPT ![t] = "cd_lock"]
    /\ arg' = [arg EXCEPT ![t] = d]
    /\ UNCHANGED <<dispatcher, dlock, servers, slock, srv, tgt, reqs, last>>
    /\ QuietUpd

\* let mut lock = self.dispatcher.write().unwrap();
configure_dispatch_write(t) ==
    /\ pc[t] = "cd_lock"
    /\ dlock.writer = None /\ dlock.readers = {}
    /\ dlock' = [dlock EXCEPT !.writer = t]
    /\ pc' = [pc EXCEPT ![t] = "cd_store"]
    /\ UNCHANGED <<dispatcher, servers, slock, srv, arg, tgt, reqs, last>>
    /\ QuietUpd

\* a configure that releases the lock and returns without replacing the
\* dispatcher
configure_dispatch_store_keeps(t) ==
    /\ pc[t] = "cd_store"
    /\ dlock' = [dlock EXCEPT !.writer = None]
    /\ pc' = [pc EXCEPT ![t] = "idle"]
    /\ arg' = [arg EXCEPT ![t] = None]
    /\ UNCHANGED <<dispatcher, servers, slock, srv, tgt, reqs, last>>
    /\ QuietUpd

\* *lock = dispatcher; Ok(())
configure_dispatch_store(t) ==
    /\ pc[t] = "cd_store"
    /\ dispatcher' = arg[t]
    /\ dlock' = [dlock EXCEPT !.writer = None]
    /\ pc' = [pc EXCEPT ![t] = "idle"]
    /\ arg' = [arg EXCEPT ![t] = None]
    /\ UNCHANGED <<servers, slock, srv, tgt, reqs, last>>
    /\ QuietUpd

\* -------------------------------------------------------- request_handler

\* the slot a new connection takes
FreeSlot(s) == reqs[s].pc = "idle" /\ \A u \in Slots : u < s => reqs[u].pc # "idle"

\* a module id shared by all listeners instead of captured by each
module_shared(s) == "m1"

\* module.get_ref(): the module id the listener's App was given
module_get_ref(s) == reqs[s].module

\* a listener accepts a request: request_handler starts with the module id
\* captured by the listener's thread, builds the Request (extract_headers
\* panics on a header value that is no visible ASCII) and serializes it
request_handler_accept(n, s, req) ==
    /\ Serving(n)
    /\ FreeSlot(s)
    /\ reqs' = [reqs EXCEPT ![s] =
          IF extract_headers(req).ok
          THEN [NoRequest EXCEPT !.pc = "read", !.lst = n, !.module = srv[n].module]
          ELSE [NoRequest EXCEPT !.pc = "done", !.lst = n, !.module = srv[n].module,
                                 !.http = Dropped]]
    /\ UNCHANGED <<dispatcher, dlock, servers, slock, srv, pc, arg, tgt, last>>
    /\ QuietUpd

\* a read that does not wait for a writer
request_handler_read_unguarded(s) ==
    /\ reqs[s].pc = "read"
    /\ dlock' = [dlock EXCEPT !.readers = @ \cup {s}]
    /\ reqs' = [reqs EXCEPT ![s].pc = "dispatch"]
    /\ UNCHANGED <<dispatcher, servers, slock, srv, pc, arg, tgt, last>>
    /\ QuietUpd

\* let lock = (*state).read().unwrap();
request_handler_read(s) ==
    /\ reqs[s].pc = "read"
    /\ dlock.writer = None
    /\ dlock' = [dlock EXCEPT !.readers = @ \cup {s}]
    /\ reqs' = [reqs EXCEPT ![s].pc = "dispatch"]
    /\ UNCHANGED <<dispatcher, servers, slock, srv, pc, arg, tgt, last>>
    /\ QuietUpd

\* lock.dispatch(module.get_ref(), "HandleRequest", &buf), and the read guard
\* is dropped at the end of the block; a panic of the dispatcher unwinds
\* through the handler
request_handler_dispatch(s, out) ==
    /\ reqs[s].pc = "dispatch"
    /\ out \in DispatchOutcomes(dispatcher, module_get_ref(s), "HandleRequest")
    /\ dlock' = [dlock EXCEPT !.readers = @ \ {s}]
    /\ reqs' = [reqs EXCEPT ![s].via = dispatcher,
                               ![s].target = module_get_ref(s),
                               ![s].op = "HandleRequest",
                               ![s].out = out,
                               ![s].pc = IF out.kind = "panic" THEN "done" ELSE "respond",
                               ![s].http = IF out.kind = "panic" THEN Dropped ELSE NoResponse]
    /\ UNCHANGED <<dispatcher, servers, slock, srv, pc, arg, tgt, last>>
    /\ QuietUpd

\* match resp { .. }: the response is built and sent
request_handler_respond(s) ==
    /\ reqs[s].pc = "respond"
    /\ reqs' = [reqs EXCEPT ![s].pc = "done", ![s].http = Respond(reqs[s].out)]
    /\ UNCHANGED <<dispatcher, dlock, servers, slock, srv, pc, arg, tgt, last>>
    /\ QuietUpd

\* the client has the response (or the dropped connection) and goes away
request_handler_close(s) ==
    /\ reqs[s].pc = "done"
    /\ reqs' = [reqs EXCEPT ![s] = NoRequest]
    /\ UNCHANGED <<dispatcher, dlock, servers, slock, srv, pc, arg, tgt, last>>
    /\ QuietUpd

\* ------------------------------------------------------- specifications

\* the configurations the host sends: m1 on the default address, on port 9100
\* and on a port that is no number; m2 on the default address
BindMsgs == {serialize(Config("m1", v)) : v \in ValueMaps}
                \cup {serialize(Config("m2", NoValues))}
UnbindMsgs == {serialize(Config(m, NoValues)) : m \in Modules}

\* the calls of the host runtime itself
TrustedCalls ==
    ({"system"} \X {OP_BIND_ACTOR} \X BindMsgs)
        \cup ({"system"} \X {OP_REMOVE_ACTOR} \X UnbindMsgs)

\* the calls of any caller: every origin and operation, and bytes that do
\* not decode
AnyCalls ==
    (Origins \X {OP_BIND_ACTOR} \X (BindMsgs \cup {Garbage}))
        \cup (Origins \X {OP_REMOVE_ACTOR} \X (UnbindMsgs \cup {Garbage}))
        \cup (Origins \X {"HandleRequest"} \X {Garbage})

\* the listener threads and the host threads inside terminate_server
Lifecycle ==
    \/ \E t \in Threads : terminate_server_read(t)
    \/ \E t \in Threads : terminate_server_check(t)
    \/ \E t \in Threads : terminate_server_write(t)
    \/ \E t \in Threads : terminate_server_remove(t)
    \/ \E n \in SrvIds : server_thread_bind(n)
    \/ \E n \in SrvIds : server_thread_insert(n)
    \/ \E n \in SrvIds : server_stop(n)

\* the provider driven by the host runtime from two threads
Next ==
    \/ \E t \in Threads, c \in TrustedCalls : handle_call_bind(t, c[1], c[2], c[3])
    \/ \E t \in Threads, c \in TrustedCalls : handle_call_remove(t, c[1], c[2], c[3])
    \/ Lifecycle

Spec == Init /\ [][Next]_vars

\* the provider called by anyone, one call at a time
GateNext ==
    \/ \E c \in AnyCalls : handle_call_bind("h1", c[1], c[2], c[3])
    \/ \E c \in AnyCalls : handle_call_remove("h1", c[1], c[2], c[3])
    \/ \E c \in AnyCalls : handle_call_unknown("h1", c[1], c[2], c[3])
    \/ Lifecycle

GateSpec == Init /\ [][GateNext]_vars

\* every outcome a dispatch call can have
Outcomes == {DispatchErr, DispatchPanic} \cup {DispatchOk(p) : p \in Payloads}

\* the host configures dispatchers and binds and unbinds m1 and m2 from one
\* thread, while clients send requests to the listeners, one at a time
HttpBindMsgs == {serialize(Config("m1", [PORT |-> "9100"])),
                 serialize(Config("m2", NoValues))}
HttpCalls ==
    ({"system"} \X {OP_BIND_ACTOR} \X HttpBindMsgs)
        \cup ({"system"} \X {OP_REMOVE_ACTOR} \X UnbindMsgs)

HttpNext ==
    \/ \E d \in Dispatchers \ {"null"} : configure_dispatch_call("h1", d)
    \/ configure_dispatch_write("h1")
    \/ configure_dispatch_store("h1")
    \/ \E c \in HttpCalls : handle_call_bind("h1", c[1], c[2], c[3])
    \/ \E c \in HttpCalls : handle_call_remove("h1", c[1], c[2], c[3])
    \/ Lifecycle
    \/ \E n \in SrvIds, req \in Requests : request_handler_accept(n, 1, req)
    \/ request_handler_read(1)
    \/ \E out \in Outcomes : request_handler_dispatch(1, out)
    \/ request_handler_respond(1)
    \/ request_handler_close(1)

HttpSpec == Init /\ [][HttpNext]_vars

\* listeners for m1 and m2 are started and never stopped, the host hands over
\* d1 (which fails for m1 and reaches m2), and clients send requests to
\* both listeners at the same time
ConcCalls == {"system"} \X {OP_BIND_ACTOR} \X HttpBindMsgs

\* the requests whose headers extract_headers takes
ConcRequests == {req \in Requests : extract_headers(req).ok}

\* a dispatch fails, or the module answers with a Response
ConcOutcomes == {DispatchErr} \cup {DispatchOk(serialize_response(r)) : r \in Responses}

ConcNext ==
    \/ configure_dispatch_call("h1", "d1")
    \/ configure_dispatch_write("h1")
    \/ configure_dispatch_store("h1")
    \/ \E c \in ConcCalls : handle_call_bind("h1", c[1], c[2], c[3])
    \/ \E n \in SrvIds : server_thread_bind(n)
    \/ \E n \in SrvIds : server_thread_insert(n)
    \/ \E n \in SrvIds, s \in Slots, req \in ConcRequests :
          request_handler_accept(n, s, req)
    \/ \E s \in Slots : request_handler_read(s)
    \/ \E s \in Slots, out \in ConcOutcomes : request_handler_dispatch(s, out)
    \/ \E s \in Slots : request_handler_respond(s)
    \/ \E s \in Slots : request_handler_close(s)

ConcSpec == Init /\ [][ConcNext]_vars

\* two host threads hand over dispatchers (h1 hands over d1, h2 hands over
\* d2) while m1's listener is started and clients send requests to it at the
\* same time
RwCalls == {<<"system", OP_BIND_ACTOR, serialize(Config("m1", [PORT |-> "9100"]))>>}

\* the dispatch fails, or the module answers 200
RwOutcomes ==
    {DispatchErr,
     DispatchOk(serialize_response([status_code |-> 200, header |-> NoHeaders,
                                    body |-> "ok"]))}

RwNext ==
    \/ configure_dispatch_call("h1", "d1")
    \/ configure_dispatch_call("h2", "d2")
    \/ \E t \in Threads : configure_dispatch_write(t)
    \/ \E t \in Threads : configure_dispatch_store(t)
    \/ \E c \in RwCalls : handle_call_bind("h1", c[1], c[2], c[3])
    \/ \E n \in SrvIds : server_thread_bind(n)
    \/ \E n \in SrvIds : server_thread_insert(n)
    \/ \E n \in SrvIds, s \in Slots, req \in ConcRequests :
          request_handler_accept(n, s, req)
    \/ \E s \in Slots : request_handler_read(s)
    \/ \E s \in Slots, out \in RwOutcomes : request_handler_dispatch(s, out)
    \/ \E s \in Slots : request_handler_respond(s)
    \/ \E s \in Slots : request_handler_close(s)

RwSpec == Init /\ [][RwNext]_vars

\* the host binds modules with every combination of the keys HOST, PORT and
\* a key that spawn_server does not read, and the listener threads bind and
\* register
AddrKeys == {"HOST", "PORT", "TLS"}
AddrValuesOf(k) ==
    CASE k = "HOST" -> {"127.0.0.1"}
      [] k = "PORT" -> {"9100", "9101"}
      [] OTHER -> {"on"}
AddrValueMaps ==
    {v \in UNION {[K -> {"127.0.0.1", "9100", "9101", "on"}] : K \in SUBSET AddrKeys} :
        \A k \in DOMAIN v : v[k] \in AddrValuesOf(k)}
AddrCalls ==
    {<<"system", OP_BIND_ACTOR, serialize(Config(m, v))>> :
        m \in Modules, v \in AddrValueMaps}

AddrNext ==
    \/ \E c \in AddrCalls : handle_call_bind("h1", c[1], c[2], c[3])
    \/ \E n \in SrvIds : server_thread_bind(n)
    \/ \E n \in SrvIds : server_thread_insert(n)

AddrSpec == Init /\ [][AddrNext]_vars

\* one host thread stops modules while the other starts modules
PairNext ==
    \/ \E c \in TrustedCalls : handle_call_bind("h2", c[1], c[2], c[3])
    \/ \E c \in TrustedCalls : handle_call_remove("h1", c[1], c[2], c[3])
    \/ Lifecycle

PairSpec == Init /\ [][PairNext]_vars

\* the host runtime binds and unbinds from one thread; a host thread inside
\* terminate_server keeps running, and so does every spawned listener
\* thread: it binds, registers and acts on a stop command that was sent
FairNext ==
    \/ \E c \in TrustedCalls : handle_call_bind("h1", c[1], c[2], c[3])
    \/ \E c \in TrustedCalls : handle_call_remove("h1", c[1], c[2], c[3])
    \/ Lifecycle

Fairness ==
    /\ \A t \in Threads :
          WF_vars(terminate_server_read(t) \/ terminate_server_check(t)
                    \/ terminate_server_write(t) \/ terminate_server_remove(t))
    /\ \A n \in 1..MaxSpawns :
          WF_vars(n \in SrvIds /\ (server_thread_bind(n) \/ server_thread_insert(n)
                                      \/ server_stop(n)))

FairSpec == Init /\ [][FairNext]_vars /\ Fairness

\* ------------------------------------------------------------ properties

\* host thread t makes the call c = <<origin, operation, bytes>> in this step
MakesCall(t, c) ==
    \/ handle_call_bind(t, c[1], c[2], c[3])
    \/ handle_call_remove(t, c[1], c[2], c[3])
    \/ handle_call_unknown(t, c[1], c[2], c[3])

\* host thread t returns from terminate_server in this step
StopReturns(t) == pc[t] \in StopPcs /\ pc'[t] = "idle"

\* C1: a bind or unbind whose origin is not "system" returns an error in the
\* step that makes it; it starts and stops no listener and the registry is
\* the same before and after.
C1_UntrustedRejected ==
    [][\A t \in Threads, c \in AnyCalls :
          (c[1] # "system" /\ c[2] \in {OP_BIND_ACTOR, OP_REMOVE_ACTOR}
              /\ MakesCall(t, c))
          => /\ pc'[t] = "idle"
             /\ last'.origin = c[1] /\ last'.op = c[2] /\ last'.res.kind = "err"
             /\ servers' = servers
             /\ srv' = srv]_vars

\* an untrusted bind or unbind has been rejected while a listener was
\* registered
C1_Witness ==
    /\ last.origin # "system"
    /\ last.op \in {OP_BIND_ACTOR, OP_REMOVE_ACTOR}
    /\ last.res.kind = "err"
    /\ \E m \in Modules : servers[m] # 0 /\ Serving(servers[m])

\* C2: when stop(m) returns, having been called with m registered and with
\* no other start or stop for m at any time during the call, m is absent
\* from the registry and the listener that was registered under m has been
\* sent the stop command and is in its run loop, where it acts on it and
\* closes its socket.
C2_StopRemovesAndShutsDown ==
    [][\A t \in Threads :
          (StopReturns(t) /\ last'.res = Ok /\ quiet[t] /\ tgt[t] # 0)
          => /\ servers'[arg[t]] = 0
             /\ srv'[tgt[t]].module = arg[t]
             /\ srv'[tgt[t]].stopReq
             /\ srv'[tgt[t]].pc = "run"]_vars

\* an undisturbed stop of a registered module has returned, and its listener
\* has closed its socket
C2_Witness ==
    /\ last.op = OP_REMOVE_ACTOR /\ last.res = Ok /\ last.quiet
    /\ \A t \in Threads : pc[t] = "idle"
    /\ servers[last.module] = 0
    /\ \E n \in SrvIds :
          srv[n].module = last.module /\ srv[n].stopReq /\ srv[n].sock = "closed"

\* C3: stop(m), for an m that was not registered when stop was called and
\* is not registered when stop takes the lock and looks it up, never panics,
\* sends no stop command and leaves the registry and its lock as they were;
\* the call returns Ok.
C3_StopUnknownIsNoOp ==
    [][\A t \in Threads :
          (pc[t] \in {"ts_read", "ts_check"} /\ pc'[t] # pc[t]
              /\ tgt[t] = 0 /\ servers[arg[t]] = 0)
          => /\ servers' = servers
             /\ srv' = srv
             /\ slock'.poisoned = slock.poisoned
             /\ (pc'[t] = "idle" => last'.res = Ok)]_vars

\* the listeners of module m that are bound and accepting
ServingOf(m) == {n \in SrvIds : srv[n].module = m /\ srv[n].sock = "listening"}

\* C4: every module has at most one listener that is bound and serving.
C4_AtMostOneListener == \A m \in Modules : Cardinality(ServingOf(m)) <= 1

\* C5: a module is a key of the registry if and only if a listener for that
\* module is bound and serving.
C5_RegisteredIffServing == \A m \in Modules : servers[m] # 0 <=> ServingOf(m) # {}

\* C6: a handle is inserted only by a thread whose bind has succeeded; the
\* step in which a bind fails changes no registry entry, no other listener
\* and no host thread, and leaves the failed thread without a socket and
\* never registered; the bind call that spawned a thread returned Ok.
C6_InsertOnlyAfterBind ==
    [][/\ \A n \in SrvIds :
            /\ (srv[n].pc = "bind" /\ srv'[n].pc # "bind" /\ srv'[n].sock # "listening")
               => /\ servers' = servers
                  /\ \A k \in SrvIds \ {n} : srv'[k] = srv[k]
                  /\ srv'[n].pc = "dead" /\ srv'[n].sock = "none"
                  /\ pc' = pc /\ last' = last
            /\ (servers'[srv[n].module] = n /\ servers[srv[n].module] # n)
               => srv[n].sock = "listening"
            /\ (srv[n].pc = "dead" /\ srv[n].sock = "none")
               => \A m \in Modules : servers'[m] # n
       /\ Len(srv') > Len(srv)
            => last'.op = OP_BIND_ACTOR /\ last'.res = Ok]_vars

\* a bind has failed and left its module unregistered, while the listener of
\* the other module is registered and serving and the last bind returned Ok
C6_Witness ==
    \E n \in SrvIds, k \in SrvIds :
        /\ srv[n].pc = "dead" /\ srv[n].sock = "none"
        /\ srv[n].module # srv[k].module
        /\ servers[srv[n].module] = 0
        /\ servers[srv[k].module] = k /\ Serving(k)
        /\ last.op = OP_BIND_ACTOR /\ last.res = Ok

\* C7: when an undisturbed stop(m) returns, and two listeners of m on
\* different ports had both been registered before it was called and none
\* had been stopped, the registry holds no entry for m and each of the two
\* listeners has closed its socket or has been sent the stop command.
C7_TwoStartsOneStop ==
    [][\A t \in Threads, n1 \in SrvIds, n2 \in SrvIds :
          (/\ StopReturns(t) /\ last'.res = Ok /\ quiet[t] /\ tgt[t] # 0
           /\ n1 # n2
           /\ srv[n1].module = arg[t] /\ srv[n2].module = arg[t]
           /\ srv[n1].pc = "run" /\ srv[n2].pc = "run"
           /\ srv[n1].addr # srv[n2].addr
           /\ ~(srv[n1].stopReq /\ srv[n2].stopReq))
          => /\ servers'[arg[t]] = 0
             /\ \A n \in {n1, n2} : srv'[n].sock = "closed" \/ srv'[n].stopReq]_vars

\* the dispatch of a finished request failed in one of the three ways
DispatchFailed(out) ==
    \/ out.kind = "err"
    \/ out.kind = "ok" /\ ~deserialize_response(out.payload).ok

\* C8: a request whose dispatch failed (an error from the dispatcher, or a
\* payload that does not decode) is answered with status 500 and the body
\* "Failed to handle request".
C8_FailureGives500 ==
    \A s \in Slots :
        (reqs[s].pc = "done" /\ DispatchFailed(reqs[s].out))
        => reqs[s].http = [sent |-> TRUE, status |-> 500, headers |-> NoHeaders,
                           body |-> "Failed to handle request"]

\* C9: a request whose dispatch succeeded with a decodable response r is
\* answered with r's status code, r's headers and r's body.
C9_ResponseMirrorsModule ==
    \A s \in Slots :
        (reqs[s].pc = "done" /\ reqs[s].out.kind = "ok"
            /\ deserialize_response(reqs[s].out.payload).ok)
        => LET r == deserialize_response(reqs[s].out.payload).val IN
           /\ reqs[s].http.sent
           /\ reqs[s].http.status = r.status_code
           /\ reqs[s].http.headers = r.header
           /\ reqs[s].http.body = r.body

\* C10: under the dispatcher d1, which fails for m1 and reaches m2, whatever
\* else is in flight: a request on m1's listener is dispatched to m1, fails
\* and is answered with 500 and the fixed body; a request on m2's listener is
\* dispatched to m2, succeeds and, when m2's payload decodes to a response
\* with a valid status, is answered with that status and body; and the step
\* that answers m1's request changes no other request, no listener and no
\* registry entry.
C10_FailureIsolated ==
    [][\A s \in Slots :
          (reqs[s].pc = "respond" /\ reqs'[s].pc = "done" /\ reqs[s].via = "d1")
          => /\ reqs[s].module = "m1"
                => /\ reqs[s].out.kind = "err"
                   /\ reqs'[s].http = [sent |-> TRUE, status |-> 500,
                                       headers |-> NoHeaders,
                                       body |-> "Failed to handle request"]
                   /\ \A u \in Slots \ {s} : reqs'[u] = reqs[u]
                   /\ servers' = servers /\ srv' = srv
             /\ reqs[s].module = "m2"
                => /\ reqs[s].out.kind = "ok"
                   /\ LET r == deserialize_response(reqs[s].out.payload) IN
                      (r.ok /\ r.val.status_code \in 100..999)
                      => /\ reqs'[s].http.sent
                         /\ reqs'[s].http.status = r.val.status_code
                         /\ reqs'[s].http.body = r.val.body]_vars

\* requests to m1 and to m2 were in flight together under d1: m1's has been
\* answered with 500, m2's with the module's 201
C10_Witness ==
    \E s \in Slots, u \in Slots :
        /\ reqs[s].pc = "done" /\ reqs[s].module = "m1" /\ reqs[s].via = "d1"
        /\ reqs[s].http.status = 500
        /\ reqs[u].pc = "done" /\ reqs[u].module = "m2" /\ reqs[u].via = "d1"
        /\ reqs[u].http.sent /\ reqs[u].http.status = 201

\* C11: a call whose (origin, operation) pair is neither ("system", bind) nor
\* ("system", unbind), whatever its bytes, returns in the step that makes it
\* the error "Unknown operation: <operation>" with the operation string of
\* the call; it spawns no listener thread, sends no stop command and leaves
\* the registry as it was.
C11_UnknownOperation ==
    [][\A t \in Threads, c \in AnyCalls :
          (/\ <<c[1], c[2]>> # <<"system", OP_BIND_ACTOR>>
           /\ <<c[1], c[2]>> # <<"system", OP_REMOVE_ACTOR>>
           /\ MakesCall(t, c))
          => /\ pc'[t] = "idle"
             /\ last'.origin = c[1] /\ last'.op = c[2]
             /\ last'.res = [kind |-> "err", msg |-> <<"Unknown operation: ", c[2]>>]
             /\ servers' = servers
             /\ srv' = srv]_vars

\* the host runtime itself has made a call with an operation that is neither
\* bind nor unbind, while a listener was registered and serving, and got the
\* error that names the operation
C11_Witness ==
    /\ last.origin = "system"
    /\ last.op = "HandleRequest"
    /\ last.res = [kind |-> "err", msg |-> <<"Unknown operation: ", "HandleRequest">>]
    /\ \E m \in Modules : servers[m] # 0 /\ Serving(servers[m])

\* C12: every request that a listener accepted and that has left
\* request_handler was dispatched, once, with the module id its listener was
\* started for as the target and "HandleRequest" as the operation; a request
\* that is answering was dispatched in the same way.
C12_OneDispatchToOwnModule ==
    \A s \in Slots :
        reqs[s].pc \in {"respond", "done"}
        => /\ reqs[s].op = "HandleRequest"
           /\ reqs[s].target = srv[reqs[s].lst].module

\* C13: configure_dispatch(d) returns with d as the shared dispatcher, whether
\* or not any listener has been spawned; nothing but a returning configure
\* changes the shared dispatcher; and every dispatch of every listener's
\* request goes through the dispatcher that is shared at that moment, with no
\* configure holding it for writing: its result is one that this dispatcher
\* gives for the request's module.
C13_ConfigureReplacesHandle ==
    [][/\ \A t \in Threads :
            (pc[t] = "cd_store" /\ pc'[t] = "idle") => dispatcher' = arg[t]
       /\ dispatcher' # dispatcher
            => \E t \in Threads : pc[t] = "cd_store" /\ pc'[t] = "idle"
       /\ \A s \in Slots :
            (reqs[s].pc = "dispatch" /\ reqs'[s].pc # "dispatch")
            => /\ dlock.writer = None
               /\ dispatcher' = dispatcher
               /\ reqs'[s].via = dispatcher
               /\ reqs'[s].out \in
                     DispatchOutcomes(dispatcher, srv[reqs[s].lst].module, "HandleRequest")]_vars

\* d2 is the shared dispatcher, and a request on m1's listener has been
\* dispatched through it and has reached the module (which d1 and the
\* initial NullDispatcher never do)
C13_Witness ==
    /\ dispatcher = "d2"
    /\ \A t \in Threads : pc[t] = "idle"
    /\ \E s \in Slots :
          /\ reqs[s].pc = "done" /\ reqs[s].module = "m1"
          /\ reqs[s].via = "d2" /\ reqs[s].out.kind = "ok" /\ reqs[s].http.sent

\* C14: a bind with the values v spawns a listener thread for the address
\* HOST:PORT, where HOST is v["HOST"] if v has that key and "0.0.0.0" if not,
\* and PORT is v["PORT"] if v has that key and "8080" if not, each whatever
\* the other is; empty values give 0.0.0.0:8080; two configurations that
\* differ only in keys other than HOST and PORT give the same address; and
\* the thread binds the address it was spawned with.
C14_BindAddress ==
    [][/\ \A c \in AddrCalls :
            handle_call_bind("h1", c[1], c[2], c[3])
            => LET v == c[3].values
                   host == IF "HOST" \in DOMAIN v THEN v["HOST"] ELSE "0.0.0.0"
                   port == IF "PORT" \in DOMAIN v THEN v["PORT"] ELSE "8080"
                   new == srv'[Len(srv')]
               IN  /\ Len(srv') = Len(srv) + 1
                   /\ new.module = c[3].module
                   /\ new.addr = <<host, ":", port>>
                   /\ DOMAIN v = {} => new.addr = <<"0.0.0.0", ":", "8080">>
                   /\ \A w \in AddrValueMaps :
                         (/\ ("HOST" \in DOMAIN w <=> "HOST" \in DOMAIN v)
                          /\ ("PORT" \in DOMAIN w <=> "PORT" \in DOMAIN v)
                          /\ ("HOST" \in DOMAIN v => w["HOST"] = v["HOST"])
                          /\ ("PORT" \in DOMAIN v => w["PORT"] = v["PORT"]))
                         => bind_addr(w) = new.addr
       /\ \A n \in SrvIds :
            /\ srv'[n].addr = srv[n].addr
            /\ (srv[n].pc = "bind" /\ srv'[n].sock = "listening")
               => /\ ParseAddr(srv[n].addr).ok
                  /\ ParseAddr(srv[n].addr).host = srv[n].addr[1]
                  /\ ParseAddr(srv[n].addr).port = PortNumber(srv[n].addr[3])]_vars

\* one listener serves on 127.0.0.1:8080 (HOST given, PORT defaulted) and
\* another on 0.0.0.0:9100 (PORT given, HOST defaulted)
C14_Witness ==
    \E n \in SrvIds, k \in SrvIds :
        /\ srv[n].addr = <<"127.0.0.1", ":", "8080">> /\ Serving(n)
        /\ srv[k].addr = <<"0.0.0.0", ":", "9100">> /\ Serving(k)
        /\ servers[srv[n].module] = n /\ servers[srv[k].module] = k

\* C15: in every reachable state, no host thread is inside the write of
\* configure_dispatch while a request is inside its dispatch call, and at
\* most one host thread is inside that write; the lock's writer is exactly
\* the thread inside the write and its readers are exactly the requests
\* inside their dispatch call.
C15_SingleWriterManyReaders ==
    /\ \A t \in Threads :
          pc[t] = "cd_store" => \A s \in Slots : reqs[s].pc # "dispatch"
    /\ \A t \in Threads, u \in Threads :
          (pc[t] = "cd_store" /\ pc[u] = "cd_store") => t = u
    /\ \A t \in Threads : dlock.writer = t <=> pc[t] = "cd_store"
    /\ dlock.readers = {s \in Slots : reqs[s].pc = "dispatch"}

\* two requests are inside their dispatch call at the same time, both
\* holding the dispatcher for reading, while a configure waits for the write
C15_Witness ==
    /\ \E s \in Slots, u \in Slots :
          s # u /\ reqs[s].pc = "dispatch" /\ reqs[u].pc = "dispatch"
    /\ dlock.readers = Slots
    /\ \E t \in Threads : pc[t] = "cd_lock"

\* C16: from the step in which stop(m) has found m in the registry to the
\* step in which it removes m, the registry changes in no step but stop's
\* own removal: no insert and no remove of another start or stop takes
\* effect in between.
C16_CheckAndRemoveAtomic ==
    [][\A t \in Threads :
          (pc[t] \in {"ts_write", "ts_remove"} /\ servers' # servers)
          => (pc[t] = "ts_remove" /\ pc'[t] = "idle")]_vars

\* a stop or a listener thread is under way
Pending ==
    \/ \E t \in Threads : Stopping(t)
    \/ \E n \in SrvIds : srv[n].pc \in {"bind", "insert"}

\* C17: while one host thread stops modules and the other starts modules:
\* whenever a stop or a listener thread is under way, some step of them can
\* be taken (no deadlock); a stop(a) that was called with a registered and
\* met no other start or stop of a, whatever starts of other modules it met,
\* returns Ok with a absent from the registry, a's listener sent the stop
\* command, and every other module's entry as it was; no step of a stop(a)
\* changes the listener of another module; and a listener thread of b that
\* has bound registers without error, with b mapped to its own handle and
\* every other module's entry as it was.
C17_StopAndStartOfDistinctModules ==
    /\ [](Pending => ENABLED Lifecycle)
    /\ [][/\ \A t \in Threads :
              /\ (StopReturns(t) /\ tgt[t] # 0 /\ quiet[t])
                 => /\ last'.res = Ok
                    /\ servers'[arg[t]] = 0
                    /\ srv'[tgt[t]].module = arg[t]
                    /\ srv'[tgt[t]].stopReq
                    /\ srv'[tgt[t]].pc = "run"
                    /\ \A b \in Modules \ {arg[t]} : servers'[b] = servers[b]
              /\ (Stopping(t) /\ pc'[t] # pc[t])
                 => \A n \in SrvIds : srv[n].module # arg[t] => srv'[n] = srv[n]
         /\ \A n \in SrvIds :
              (srv[n].pc = "insert" /\ srv'[n].pc # "insert")
              => /\ srv'[n].pc = "run" /\ srv'[n].sock = "listening"
                 /\ servers'[srv[n].module] = n
                 /\ \A a \in Modules \ {srv[n].module} : servers'[a] = servers[a]]_vars

\* stop(a) has found a, has sent the stop command and holds the registry for
\* the removal, while the listener thread of another module b has bound and
\* waits to register; no other start or stop of a has been met
C17_Witness ==
    \E t \in Threads, n \in SrvIds :
        /\ pc[t] = "ts_remove" /\ tgt[t] # 0 /\ quiet[t]
        /\ servers[arg[t]] = tgt[t] /\ srv[tgt[t]].stopReq
        /\ srv[n].module # arg[t]
        /\ srv[n].pc = "insert" /\ srv[n].sock = "listening"

\* C18: every stop(m) that was called with m registered, whatever other
\* stop(m) runs at the same time, returns Ok and not by a panic, with m
\* absent from the registry and the registry's lock not poisoned, so that
\* later starts and stops can take it.
C18_ConcurrentStopsBothReturn ==
    [][\A t \in Threads :
          (StopReturns(t) /\ tgt[t] # 0)
          => /\ last'.res = Ok
             /\ servers'[arg[t]] = 0
             /\ ~slock'.poisoned]_vars

\* the listener threads that were spawned for module m
SpawnedFor(m) == {n \in SrvIds : srv[n].module = m}

\* C19: once one bind for m has been accepted and an unbind for m has
\* returned Ok, then eventually m is absent from the registry and no listener
\* of m is bound and serving (or a further bind for m has been accepted).
C19_UnbindEventuallyStops ==
    \A m \in Modules :
        (/\ pc["h1"] = "idle"
         /\ last.op = OP_REMOVE_ACTOR /\ last.module = m /\ last.res = Ok
         /\ Cardinality(SpawnedFor(m)) = 1)
        ~> (\/ servers[m] = 0 /\ ServingOf(m) = {}
            \/ Cardinality(SpawnedFor(m)) > 1)

\* C20: the registry entry that a stop(m) removes is the handle of a listener
\* that has been sent the stop command: no stop removes the handle of a
\* listener that nobody asked to shut down.
C20_StopEvictsOnlyStopped ==
    [][\A t \in Threads :
          (pc[t] = "ts_remove" /\ pc'[t] = "idle" /\ servers[arg[t]] # 0)
          => srv[servers[arg[t]]].stopReq]_vars

====
